---- MODULE Spec2Model ----
(***************************************************************************)
(* A model of xap/layout.py: BIDSFile, BIDSDataset, the cached query table *)
(* and the filter evaluator BIDSDataset._query.                            *)
(*                                                                         *)
(* A pandas DataFrame is a record [columns, rows]; rows is a sequence of   *)
(* [index, cells], cells a function from the column names to cell values.  *)
(* Cell values are strings.  Two of them are the nulls of pandas: None     *)
(* (falsy under bool()) and NaN (truthy under bool()).  Zero stands for    *)
(* the number 0, the one non-null falsy cell value of the model.           *)
(***************************************************************************)
EXTENDS Naturals, Sequences, FiniteSets, TLC

\* ------------------------------------------------------------------ bounds
MaxRows == 2
MaxFilters == 2
MaxMutations == 1

\* ------------------------------------------------------------ cell values
None == "<None>"
NaN == "<NaN>"
Zero == "0"

IsNull(v) == v \in {None, NaN}

\* bool(v): None, 0 and the empty string are falsy; nan is truthy.
Truthy(v) == v \notin {None, Zero, ""}

\* ------------------------------------------------------------- sentinels
NONE == "NONE"
REQUIRED == "REQUIRED"
OPTIONAL == "OPTIONAL"

\* A filter value as Python sees it: kind "None" is the object None, kinds
\* NONE / REQUIRED / OPTIONAL are the sentinels of xap.types, "exact" is any
\* other scalar (vals is <<v>>) and "list" is a list (vals its elements).
FilterNone == [kind |-> "None", vals |-> <<>>]
Sentinel(s) == [kind |-> s, vals |-> <<>>]
Exact(v) == [kind |-> "exact", vals |-> <<v>>]
ListOf(vs) == [kind |-> "list", vals |-> vs]

\* A value read from a table cell and passed back as a keyword argument.
PyValue(v) == IF v = None THEN FilterNone ELSE Exact(v)

\* ------------------------------------------------------------ string help
StartsWith(s, p) == Len(s) >= Len(p) /\ SubSeq(s, 1, Len(p)) = p

\* s[n:] of Python, for n <= len(s)
StrFrom(s, n) == SubSeq(s, n + 1, Len(s))

Range(s) == {s[i] : i \in DOMAIN s}

\* Index.unique(): the values in order of first appearance.
RECURSIVE Unique(_)
Unique(s) ==
  IF s = <<>> THEN <<>>
  ELSE LET front == Unique(SubSeq(s, 1, Len(s) - 1))
           x == s[Len(s)]
       IN IF x \in Range(front) THEN front ELSE Append(front, x)

\* ------------------------------------------------------------ operation outcomes
Ok(v) == [status |-> "ok", value |-> v]
Raise(e) == [status |-> e, value |-> <<>>]

\* ------------------------------------------------------------ the raw table
\* The columns of the table bids2table builds, in column order.
RawColumns ==
  << "ds__dataset_description", "file__file_path", "ent__sub", "ent__datatype",
     "ent__suffix", "ent__ext", "ent__extra_entities", "meta__json" >>

\* meta__json cells: a JSON object (a set of <<key, value>> items) or null.
JsonNull == [null |-> TRUE, items |-> {}]
JsonObj(items) == [null |-> FALSE, items |-> items]

\* obj or {}
ObjOrEmpty(obj) == IF obj.null THEN {} ELSE obj.items

\* ------------------------------------------------------------ File, BIDSFile
\* pathlib.Path(path): a Path object, which is never equal to a str.
Path(p) == [pathlib |-> "Path", str |-> p]

\* str(path)
PathStr(path) == path.str

NoMetadata == [cached |-> FALSE, value |-> JsonNull]

\* BIDSFile.__init__ (File.__init__ included); hasDataset is `dataset is not None`.
BIDSFile(path, hasDataset, entities, datatype, suffix, extension) ==
  [ path |-> Path(path), dataset |-> hasDataset, entities |-> entities,
    datatype |-> datatype, suffix |-> suffix, extension |-> extension,
    metadata |-> NoMetadata ]

ReservedEntityKeys == {"datatype", "suffix", "ext", "extra_entities"}

\* The columns the dict comprehension of from_row keeps, in column order.
EntityColumns(row) ==
  SelectSeq(RawColumns,
            LAMBDA col : /\ StartsWith(col, "ent__")
                         /\ ~IsNull(row[col])
                         /\ StrFrom(col, 5) \notin ReservedEntityKeys)

\* from_row with the reserved keys not excluded from the entities.
from_row_keeps_reserved(row) ==
  LET cols == SelectSeq(RawColumns,
                        LAMBDA col : StartsWith(col, "ent__") /\ ~IsNull(row[col]))
  IN BIDSFile(row["file__file_path"], TRUE,
              [i \in DOMAIN cols |-> <<StrFrom(cols[i], 5), row[cols[i]]>>],
              row["ent__datatype"], row["ent__suffix"], row["ent__ext"])

\* BIDSFile.from_row: entities is the dict as the sequence of its items.
from_row(row) ==
  LET cols == EntityColumns(row)
  IN BIDSFile(row["file__file_path"], TRUE,
              [i \in DOMAIN cols |-> <<StrFrom(cols[i], 5), row[cols[i]]>>],
              row["ent__datatype"], row["ent__suffix"], row["ent__ext"])

\* ------------------------------------------------------------ the schema
\* schema.objects.entities of the bundled BIDS schema, as far as the columns
\* of the model go: the entity with key "subject" has name "sub".
SchemaEntities == {[key |-> "subject", name |-> "sub"]}

\* ------------------------------------------------------------ query_table
\* columns.str.match(r'(ds|file|meta)__|ent__extra'): anchored at the start.
DropPattern(col) ==
  \/ StartsWith(col, "ds__")
  \/ StartsWith(col, "file__")
  \/ StartsWith(col, "meta__")
  \/ StartsWith(col, "ent__extra")

\* The renamer dict: the schema's entries, then the three fixed ones on top.
Renamer(col) ==
  IF col = "ent__datatype" THEN "datatype"
  ELSE IF col = "ent__suffix" THEN "suffix"
  ELSE IF col = "ent__ext" THEN "extension"
  ELSE IF \E e \in SchemaEntities : col = "ent__" \o e.name
       THEN (CHOOSE e \in SchemaEntities : col = "ent__" \o e.name).key
       ELSE col

\* The columns of pd.DataFrame([obj or {} ...]): the union of the keys.
MetaColumns(table) ==
  {kv[1] : kv \in UNION {ObjOrEmpty(table[i]["meta__json"]) : i \in DOMAIN table}}

\* A cell of that frame: the key's value, NaN where the row has no such key.
MetaCell(obj, k) ==
  IF \E kv \in ObjOrEmpty(obj) : kv[1] = k
  THEN (CHOOSE kv \in ObjOrEmpty(obj) : kv[1] = k)[2]
  ELSE NaN

\* dropna(axis=1, how='all'): the columns with at least one non-null cell.
DropAllNullColumns(T) ==
  LET keep == {c \in T.columns : \E i \in DOMAIN T.rows : ~IsNull(T.rows[i].cells[c])}
  IN [ columns |-> keep,
       rows |-> [i \in DOMAIN T.rows |->
                  [index |-> T.rows[i].index,
                   cells |-> [c \in keep |-> T.rows[i].cells[c]]]] ]

\* BIDSDataset.query_table, computed from the raw table.  The metadata keys
\* of the model are no column names of the raw table, so the join does not
\* meet overlapping columns.
ComputeQueryTable(table) ==
  LET tcols == (Range(RawColumns) \ {"file__file_path"}) \cup {"path"}
      kept == {c \in tcols : ~DropPattern(c)}
      mcols == MetaColumns(table)
      RawCell(i, c) ==
        IF c = "path" THEN table[i]["file__file_path"]
        ELSE IF c \in kept THEN table[i][c]
        ELSE MetaCell(table[i]["meta__json"], c)
      Source(c2) == CHOOSE c \in kept \cup mcols : Renamer(c) = c2
      renamed == {Renamer(c) : c \in kept \cup mcols}
  IN DropAllNullColumns(
       [ columns |-> renamed,
         rows |-> [i \in DOMAIN table |->
                    [index |-> table[i]["file__file_path"],
                     cells |-> [c2 \in renamed |-> RawCell(i, Source(c2))]]] ])

\* DataFrame.set_index(col): the column becomes the index and leaves the columns.
SetIndex(T, col) ==
  [ columns |-> T.columns \ {col},
    rows |-> [i \in DOMAIN T.rows |->
               [index |-> T.rows[i].cells[col],
                cells |-> [c \in T.columns \ {col} |-> T.rows[i].cells[c]]]] ]

\* ------------------------------------------------------------ _query
\* table.dropna(subset=key)
DropNa(T, key) ==
  [T EXCEPT !.rows = SelectSeq(T.rows, LAMBDA r : ~IsNull(r.cells[key]))]

\* table[table[key].astype(bool)], or with negate table[~table[key].astype(bool)]
BoolMask(T, key, negate) ==
  [T EXCEPT !.rows = SelectSeq(T.rows, LAMBDA r : Truthy(r.cells[key]) # negate)]

\* table[table[key] == v]
EqualMask(T, key, v) ==
  [T EXCEPT !.rows = SelectSeq(T.rows, LAMBDA r : r.cells[key] = v)]

\* lines 146-149: val in (None, bt.NONE)
AbsentStep(T, key) ==
  IF key \notin T.columns THEN [status |-> "KeyError", table |-> T]
  ELSE [status |-> "next", table |-> BoolMask(T, key, TRUE)]

\* lines 150-153: val == bt.REQUIRED
RequiredStep(T, key) ==
  IF key \notin T.columns THEN [status |-> "KeyError", table |-> T]
  ELSE [status |-> "next",
        table |-> BoolMask(DropNa(T, key), key, FALSE)]

\* lines 159-164 with a list: the cells of the model are scalars, so the
\* any(...) of line 161 is true exactly when a row is left.  `Series in val`
\* compares the Series to each element and asks for the truth value of the
\* outcome (ValueError); with an empty list it is False, and table[False] is
\* a KeyError.  With no row left, line 164 compares an empty Series to the
\* list: ValueError unless the list is empty too.
ListStep(T, key, vals) ==
  LET t == DropNa(T, key)
  IN IF t.rows # <<>>
     THEN [status |-> IF vals # <<>> THEN "ValueError" ELSE "KeyError", table |-> t]
     ELSE IF vals # <<>> THEN [status |-> "ValueError", table |-> t]
          ELSE [status |-> "next", table |-> t]

\* ExactStep with the comparison of line 164 left out.
ExactStep_no_compare(T, key, v) ==
  [status |-> "next", table |-> DropNa(T, key)]

\* lines 159-164 with a scalar: table[table[key] == val]
ExactStep(T, key, v) ==
  [status |-> "next", table |-> EqualMask(DropNa(T, key), key, v)]

\* One pass of the loop of _query.
QueryStep(T, key, val) ==
  IF val.kind \in {"None", NONE} THEN AbsentStep(T, key)
  ELSE IF val.kind = REQUIRED THEN RequiredStep(T, key)
  ELSE IF val.kind = OPTIONAL THEN [status |-> "next", table |-> T]
  ELSE IF key \notin T.columns \/ T.rows = <<>> THEN [status |-> "return", table |-> T]
  ELSE IF val.kind = "list" THEN ListStep(T, key, val.vals)
  ELSE ExactStep(T, key, val.vals[1])

\* BIDSDataset._query: filters is the keyword dict as the sequence of its
\* items [key, val].
RECURSIVE _query(_, _)
_query(T, filters) ==
  IF filters = <<>>
  THEN Ok(Unique([i \in DOMAIN T.rows |-> T.rows[i].index]))
  ELSE LET s == QueryStep(T, Head(filters).key, Head(filters).val)
       IN IF s.status = "next" THEN _query(s.table, Tail(filters))
          ELSE IF s.status = "return" THEN Ok(<<>>)
          ELSE Raise(s.status)

\* ------------------------------------------------------------ the state
VARIABLES
  table,        \* BIDSDataset.table, the raw table: a sequence of rows
  files,        \* BIDSDataset.files
  orphan,       \* a BIDSFile constructed with no dataset
  query_table,  \* the cached_property slot of BIDSDataset.query_table
  last,         \* the last call made on the dataset or a file, and its outcome
  derivations,  \* how often the body of query_table has run
  basis,        \* the raw table as it was when the body of query_table ran
  mutations     \* how often the caller has changed BIDSDataset.table

vars == <<table, files, orphan, query_table, last, derivations, basis, mutations>>

\* ------------------------------------------------------------ inputs
RepetitionTime == "RepetitionTime"

SubValues == {None, "01", "02"}
DatatypeValues == {"func"}
MetaValues ==
  {JsonNull, JsonObj({<<RepetitionTime, Zero>>}), JsonObj({<<RepetitionTime, "2">>})}

FilePath(i) == "f" \o ToString(i)

\* A row of the raw table.  bids2table reads the entity columns as object
\* columns, whose nulls are None.
RawRow(path, sub, datatype, meta) ==
  [ ds__dataset_description |-> "{}", file__file_path |-> path,
    ent__sub |-> sub, ent__datatype |-> datatype, ent__suffix |-> "bold",
    ent__ext |-> ".nii", ent__extra_entities |-> "{}", meta__json |-> meta ]

RowsAt(i) ==
  {RawRow(FilePath(i), s, d, m) : s \in SubValues, d \in DatatypeValues, m \in MetaValues}

\* The tables bids2table can return: one row per file, paths distinct.
Tables ==
  UNION {{t \in [1..n -> UNION {RowsAt(i) : i \in 1..n}] :
            \A i \in 1..n : t[i] \in RowsAt(i)} : n \in 1..MaxRows}

FilterKeys == {"subject", "sub", "datatype", RepetitionTime}

ExactValues(key) ==
  IF key = "subject" THEN <<"01", "02">>
  ELSE IF key = "sub" THEN <<"01", "02">>
  ELSE IF key = "datatype" THEN <<"func", "anat">>
  ELSE <<Zero, "2">>

FilterValues(key) ==
  {FilterNone, Sentinel(NONE), Sentinel(REQUIRED), Sentinel(OPTIONAL),
   ListOf(ExactValues(key))}
  \cup {Exact(ExactValues(key)[i]) : i \in DOMAIN ExactValues(key)}

FilterItems ==
  UNION {{[key |-> k, val |-> v] : v \in FilterValues(k)} : k \in FilterKeys}

\* The values of the items of the longer keyword dicts.
CoreValues(key) ==
  IF key = "datatype" THEN {Exact("func")}
  ELSE IF key = "sub" THEN {}
  ELSE {FilterNone, Sentinel(REQUIRED)}
       \cup {Exact(ExactValues(key)[i]) : i \in DOMAIN ExactValues(key)}

CoreItems ==
  UNION {{[key |-> k, val |-> v] : v \in CoreValues(k)} : k \in FilterKeys}

\* The keyword dicts of exactly n core items, as sequences: the keys of a
\* dict are distinct.
RECURSIVE CoreSeqs(_)
CoreSeqs(n) ==
  IF n = 0 THEN {<<>>}
  ELSE {Append(p[1], p[2]) :
          p \in {q \in CoreSeqs(n - 1) \X CoreItems :
                   \A i \in DOMAIN q[1] : q[1][i].key # q[2].key}}

\* The keyword dicts the calls of the model pass: none, any one item, or
\* up to MaxFilters core items.
SingleFilterDicts == {<<>>} \cup {<<f>> : f \in FilterItems}
FilterDicts == SingleFilterDicts \cup UNION {CoreSeqs(n) : n \in 2..MaxFilters}

\* The keyword dicts of the calls made between mutations of the table.
SubjectFilterDicts == {fs \in SingleFilterDicts : \A i \in DOMAIN fs : fs[i].key = "subject"}

\* ------------------------------------------------------------ construction
\* BIDSDataset.__init__, after bids2table has returned t.
NoCache == [cached |-> FALSE, frame |-> [columns |-> {}, rows |-> <<>>]]

\* No call is in progress.
NoCall ==
  [op |-> "", arg |-> "", file |-> 0, filters |-> <<>>,
   status |-> "ok", value |-> <<>>]

Init ==
  /\ table \in Tables
  /\ files = [i \in DOMAIN table |-> from_row(table[i])]
  /\ orphan = BIDSFile("README", FALSE, <<>>, None, None, None)
  /\ query_table = NoCache
  /\ last = NoCall
  /\ derivations = 0
  /\ basis = <<>>
  /\ mutations = 0

\* ------------------------------------------------------------ query_table access
\* query_table as a plain property: the body runs on every access.
QueryTableValue_uncached(cache, t) == ComputeQueryTable(t)

\* What `self.query_table` evaluates to: the cached frame, or the body's value.
QueryTableValue(cache, t) ==
  IF cache.cached THEN cache.frame ELSE ComputeQueryTable(t)

\* The effect of evaluating `self.query_table`, which gave qt, on the
\* cached_property slot.
AccessQueryTable(qt) ==
  /\ query_table' = [cached |-> TRUE, frame |-> qt]
  /\ derivations' = IF query_table.cached THEN derivations ELSE derivations + 1
  /\ basis' = IF query_table.cached THEN basis ELSE table

\* ------------------------------------------------------------ the query methods
\* In the operators below qt is what `self.query_table` evaluates to when
\* the method reads it.

\* get without the fast path of lines 170-171.
get_always_queries(t, qt, filters) == _query(qt, filters)

\* BIDSDataset.get
get(t, qt, filters) ==
  IF filters = <<>>
  THEN Ok([i \in DOMAIN t |-> t[i]["file__file_path"]])
  ELSE _query(qt, filters)

\* BIDSDataset.get_entities
get_entities(qt, entity, filters) ==
  IF entity \notin qt.columns THEN Ok(<<>>)
  ELSE _query(SetIndex(qt, entity), filters)

\* BIDSDataset.get_metadata
get_metadata(qt, term, filters) ==
  IF term \notin qt.columns THEN Ok(<<>>)
  ELSE _query(SetIndex(qt, term), filters)

\* BIDSFile.metadata: line 112 reads the name `dataset`, which is bound
\* neither in the method nor in the module.
metadata(f, t) ==
  IF f.metadata.cached THEN Ok(<<f.metadata.value>>)
  ELSE IF ~f.dataset THEN Raise("ValueError")
  ELSE Raise("NameError")

\* D.get(**f.entities, datatype=f.datatype, suffix=f.suffix, extension=f.extension)
RoundTripFilters(f) ==
  [i \in DOMAIN f.entities |-> [key |-> f.entities[i][1], val |-> PyValue(f.entities[i][2])]]
  \o << [key |-> "datatype", val |-> PyValue(f.datatype)],
        [key |-> "suffix", val |-> PyValue(f.suffix)],
        [key |-> "extension", val |-> PyValue(f.extension)] >>

Call(op, arg, file, filters, outcome) ==
  [op |-> op, arg |-> arg, file |-> file, filters |-> filters,
   status |-> outcome.status, value |-> outcome.value]

\* ------------------------------------------------------------ actions
\* A call is made when none is in progress; `last` holds it and its outcome
\* until the caller takes the outcome (Return).
GetCall(qt, filters) ==
  /\ last' = Call("get", "", 0, filters, get(table, qt, filters))
  /\ IF filters = <<>>
     THEN UNCHANGED <<query_table, derivations, basis>>
     ELSE AccessQueryTable(qt)
  /\ UNCHANGED <<table, files, orphan, mutations>>

GetEntitiesCall(qt, entity, filters) ==
  /\ last' = Call("get_entities", entity, 0, filters, get_entities(qt, entity, filters))
  /\ AccessQueryTable(qt)
  /\ UNCHANGED <<table, files, orphan, mutations>>

Get ==
  /\ last = NoCall
  /\ LET qt == QueryTableValue(query_table, table)
     IN \E filters \in FilterDicts : GetCall(qt, filters)

RoundTrip ==
  /\ last = NoCall
  /\ LET qt == QueryTableValue(query_table, table)
     IN \E i \in DOMAIN files :
          /\ last' = Call("roundtrip", "", i, RoundTripFilters(files[i]),
                          get(table, qt, RoundTripFilters(files[i])))
          /\ AccessQueryTable(qt)
          /\ UNCHANGED <<table, files, orphan, mutations>>

EntityArgs == {"subject", "sub", "datatype"}
TermArgs == {RepetitionTime, "EchoTime"}

GetEntities ==
  /\ last = NoCall
  /\ LET qt == QueryTableValue(query_table, table)
     IN \E entity \in EntityArgs, filters \in SingleFilterDicts :
          GetEntitiesCall(qt, entity, filters)

GetMetadata ==
  /\ last = NoCall
  /\ LET qt == QueryTableValue(query_table, table)
     IN \E term \in TermArgs, filters \in SingleFilterDicts :
          /\ last' = Call("get_metadata", term, 0, filters, get_metadata(qt, term, filters))
          /\ AccessQueryTable(qt)
          /\ UNCHANGED <<table, files, orphan, mutations>>

ReadQueryTable ==
  /\ last = NoCall
  /\ last' = Call("query_table", "", 0, <<>>, Ok(<<>>))
  /\ AccessQueryTable(QueryTableValue(query_table, table))
  /\ UNCHANGED <<table, files, orphan, mutations>>

\* f.metadata for a file of the dataset (i >= 1) or the orphan (i = 0); a
\* cached_property stores the value only when the body returns.
ReadMetadata ==
  \E i \in 0..Len(files) :
    LET f == IF i = 0 THEN orphan ELSE files[i]
        out == metadata(f, table)
        g == IF out.status = "ok"
             THEN [f EXCEPT !.metadata = [cached |-> TRUE, value |-> out.value[1]]]
             ELSE f
    IN /\ last = NoCall
       /\ last' = Call("metadata", "", i, <<>>, out)
       /\ orphan' = IF i = 0 THEN g ELSE orphan
       /\ files' = IF i = 0 THEN files ELSE [files EXCEPT ![i] = g]
       /\ UNCHANGED <<table, query_table, derivations, basis, mutations>>

Return ==
  /\ last # NoCall
  /\ last' = NoCall
  /\ UNCHANGED <<table, files, orphan, query_table, derivations, basis, mutations>>

Next ==
  \/ Get
  \/ RoundTrip
  \/ GetEntities
  \/ GetMetadata
  \/ ReadQueryTable
  \/ ReadMetadata
  \/ Return

Spec == Init /\ [][Next]_vars

\* ------------------------------------------------------------ mutation of D.table
\* The caller changes BIDSDataset.table between calls: it drops the last row
\* or overwrites the ent__sub cell of the first row.
Mutate ==
  /\ last = NoCall
  /\ mutations < MaxMutations
  /\ table # <<>>
  /\ mutations' = mutations + 1
  /\ \/ table' = SubSeq(table, 1, Len(table) - 1)
     \/ \E v \in SubValues :
          /\ table[1]["ent__sub"] # v
          /\ table' = [table EXCEPT ![1]["ent__sub"] = v]
  /\ UNCHANGED <<files, orphan, query_table, last, derivations, basis>>

GetSubject ==
  /\ last = NoCall
  /\ LET qt == QueryTableValue(query_table, table)
     IN \E filters \in SubjectFilterDicts : GetCall(qt, filters)

GetEntitiesAll ==
  /\ last = NoCall
  /\ LET qt == QueryTableValue(query_table, table)
     IN \E entity \in EntityArgs : GetEntitiesCall(qt, entity, <<>>)

NextMut ==
  \/ GetSubject
  \/ GetEntitiesAll
  \/ ReadQueryTable
  \/ Mutate
  \/ Return

SpecMut == Init /\ [][NextMut]_vars

\* ------------------------------------------------------------ properties
NoDuplicates(s) == \A i, j \in DOMAIN s : s[i] = s[j] => i = j

Frame == query_table.frame

\* The cell of a raw row that a column of the query table shows (spec 4.4,
\* spec 8): subject is ent__sub, datatype is ent__datatype, a metadata key is
\* that key of meta__json, absent keys being null.
RawCellOf(row, column) ==
  IF column = "subject" THEN row["ent__sub"]
  ELSE IF column = "datatype" THEN row["ent__datatype"]
  ELSE IF \E kv \in (IF row["meta__json"].null THEN {} ELSE row["meta__json"].items) :
            kv[1] = column
       THEN (CHOOSE kv \in row["meta__json"].items : kv[1] = column)[2]
       ELSE NaN

ExactOnly(filters) == \A i \in DOMAIN filters : filters[i].val.kind = "exact"

\* The raw rows that match every exact-value filter.
RowsMatching(t, filters) ==
  {r \in DOMAIN t :
     \A i \in DOMAIN filters :
       /\ ~IsNull(RawCellOf(t[r], filters[i].key))
       /\ RawCellOf(t[r], filters[i].key) = filters[i].val.vals[1]}

\* C1: a get with exact-value filters on columns of the query table returns,
\* without duplicates, exactly the file paths of the rows whose filtered
\* columns are all non-null and equal to the expected values.
C1_ExactFiltersConjunctive ==
  ( /\ last.op = "get"
    /\ last.filters # <<>>
    /\ ExactOnly(last.filters)
    /\ \A i \in DOMAIN last.filters : last.filters[i].key \in Frame.columns )
  => /\ last.status = "ok"
     /\ NoDuplicates(last.value)
     /\ Range(last.value) =
          {table[r]["file__file_path"] : r \in RowsMatching(table, last.filters)}

\* Two filters, of which one alone would keep a row that the pair rejects.
C1_Witness ==
  /\ last.op = "get"
  /\ Len(last.filters) = 2
  /\ ExactOnly(last.filters)
  /\ \A i \in DOMAIN last.filters : last.filters[i].key \in Frame.columns
  /\ last.value # <<>>
  /\ Len(table) = 2
  /\ RowsMatching(table, <<last.filters[1]>>) # RowsMatching(table, last.filters)

\* C2: get() with no filters returns the file paths of all rows of the
\* table as it is now, one per row, in row order.
C2_GetAllInTableOrder ==
  (last.op = "get" /\ last.filters = <<>>)
  => /\ last.status = "ok"
     /\ Len(last.value) = Len(table)
     /\ \A i \in DOMAIN table : last.value[i] = table[i]["file__file_path"]

\* get() after the query table was derived from a table with more rows.
C2_Witness ==
  /\ last.op = "get"
  /\ last.filters = <<>>
  /\ query_table.cached
  /\ Len(basis) = 2
  /\ Len(table) = 1
  /\ last.value = <<"f1">>

\* C3 (for the filter values None, NONE and REQUIRED): a query that filters
\* on a column that the query table does not have returns an empty list and
\* raises no error.
C3_MissingColumnEmpty ==
  ( /\ last.op = "get"
    /\ Len(last.filters) = 1
    /\ last.filters[1].val.kind \in {"None", NONE, REQUIRED}
    /\ last.filters[1].key \notin Frame.columns )
  => (last.status = "ok" /\ last.value = <<>>)

\* The rows of the query table whose path the call returned.
Returned(r) == Frame.rows[r].index \in Range(last.value)

\* C4: under REQUIRED every returned row has a non-null, truthy value of the
\* column and a row whose value is null is rejected; under None or NONE
\* every returned row has a falsy or null value and a row whose value is
\* null is kept.
C4_SentinelSemantics ==
  ( /\ last.op = "get"
    /\ Len(last.filters) = 1
    /\ last.filters[1].key \in Frame.columns )
  => LET c == last.filters[1].key
         kind == last.filters[1].val.kind
         cell(r) == Frame.rows[r].cells[c]
     IN /\ kind = REQUIRED =>
             /\ last.status = "ok"
             /\ \A r \in DOMAIN Frame.rows :
                  /\ Returned(r) => (~IsNull(cell(r)) /\ Truthy(cell(r)))
                  /\ IsNull(cell(r)) => ~Returned(r)
        /\ kind \in {"None", NONE} =>
             /\ last.status = "ok"
             /\ \A r \in DOMAIN Frame.rows :
                  /\ Returned(r) => (IsNull(cell(r)) \/ ~Truthy(cell(r)))
                  /\ IsNull(cell(r)) => Returned(r)

\* C5: get(c=[v1, v2]) on a column of the query table completes normally and
\* returns, as a set, the union of get(c=v1) and get(c=v2).
C5_ListIsUnion ==
  ( /\ last.op = "get"
    /\ Len(last.filters) = 1
    /\ last.filters[1].val.kind = "list"
    /\ Len(last.filters[1].val.vals) = 2
    /\ last.filters[1].key \in Frame.columns )
  => LET c == last.filters[1].key
         one(v) == get(table, Frame, <<[key |-> c, val |-> Exact(v)]>>)
     IN /\ last.status = "ok"
        /\ NoDuplicates(last.value)
        /\ Range(last.value) =
             Range(one(last.filters[1].val.vals[1]).value)
             \cup Range(one(last.filters[1].val.vals[2]).value)

\* C6 (for exact-value filters): get_entities(e, **F) returns an empty list
\* when e is no column of the query table, and otherwise exactly the values,
\* without duplicates, of column e over the rows that satisfy every filter
\* of F, also when F names e itself; get_metadata likewise.
C6_EntityValuesOfMatchingRows ==
  ( /\ last.op \in {"get_entities", "get_metadata"}
    /\ ExactOnly(last.filters)
    /\ \A i \in DOMAIN last.filters : last.filters[i].key \in Frame.columns )
  => IF last.arg \notin Frame.columns
     THEN last.status = "ok" /\ last.value = <<>>
     ELSE /\ last.status = "ok"
          /\ NoDuplicates(last.value)
          /\ Range(last.value) =
               {Frame.rows[r].cells[last.arg] :
                  r \in {q \in DOMAIN Frame.rows :
                           \A i \in DOMAIN last.filters :
                             /\ ~IsNull(Frame.rows[q].cells[last.filters[i].key])
                             /\ Frame.rows[q].cells[last.filters[i].key]
                                  = last.filters[i].val.vals[1]}}

\* C7: for every file f of the dataset, get(**f.entities, datatype=f.datatype,
\* suffix=f.suffix, extension=f.extension) returns a list that holds f's path.
C7_RoundTrip ==
  last.op = "roundtrip"
  => /\ last.status = "ok"
     /\ PathStr(files[last.file].path) \in Range(last.value)

\* The entities of a raw row: its non-null ent__ columns other than
\* datatype, suffix, ext and extra_entities, under the column name without
\* the prefix.  ent__sub is the one such column of the model.
EntitiesOf(row) ==
  IF IsNull(row["ent__sub"]) THEN <<>> ELSE << <<"sub", row["ent__sub"]>> >>

\* C8: with the table as constructed, there is one file record per row, the
\* i-th record has the path of the i-th row and the entities of that row.
C8_FilesMirrorTable ==
  /\ Len(files) = Len(table)
  /\ \A i \in DOMAIN files :
       /\ PathStr(files[i].path) = table[i]["file__file_path"]
       /\ files[i].dataset
       /\ files[i].entities = EntitiesOf(table[i])

\* After a query through the query table, a dataset whose first row has no
\* subject and whose second row has one.
C8_Witness ==
  /\ last.op = "get_entities"
  /\ query_table.cached
  /\ Len(files) = 2
  /\ files[1].entities = <<>>
  /\ files[2].entities = << <<"sub", "02">> >>

\* C9: metadata on a file with no dataset fails with a ValueError; on a file
\* of a dataset whose raw table has exactly one row with the file's path it
\* returns that row's meta__json cell, which is then cached.
C9_MetadataLookup ==
  last.op = "metadata"
  => IF last.file = 0
     THEN last.status = "ValueError"
     ELSE LET f == files[last.file]
              hits == {r \in DOMAIN table : table[r]["file__file_path"] = PathStr(f.path)}
          IN Cardinality(hits) = 1
             => /\ last.status = "ok"
                /\ last.value = << table[CHOOSE r \in hits : TRUE]["meta__json"] >>
                /\ f.metadata = [cached |-> TRUE, value |-> last.value[1]]

\* The answer a call through the query table gives when the query table is
\* the projection of raw table t.
AnswerFrom(t, call) ==
  IF call.op = "get" THEN _query(ComputeQueryTable(t), call.filters)
  ELSE IF call.arg \notin ComputeQueryTable(t).columns THEN Ok(<<>>)
  ELSE _query(SetIndex(ComputeQueryTable(t), call.arg), call.filters)

ThroughQueryTable(call) ==
  \/ call.op = "get" /\ call.filters # <<>>
  \/ call.op = "get_entities"

C10_State ==
  /\ derivations <= 1
  /\ query_table.cached <=> derivations = 1
  /\ query_table.cached => Frame = ComputeQueryTable(basis)
  /\ ThroughQueryTable(last) =>
       /\ last.status = AnswerFrom(basis, last).status
       /\ last.value = AnswerFrom(basis, last).value
  /\ (last.op = "get" /\ last.filters = <<>>) =>
       last.value = [i \in DOMAIN table |-> table[i]["file__file_path"]]

\* C10: the query table is derived at most once, deriving it leaves the raw
\* table as it is, every query through it is answered from the projection of
\* the raw table as it was at that derivation, and get() with no filters
\* reads the raw table as it is now.
C10_DerivedOnceThenStale ==
  /\ []C10_State
  /\ [][derivations' # derivations => table' = table]_vars

\* A query answered from the stale projection: the raw table has changed
\* since the derivation and a fresh projection would answer otherwise.
C10_Witness ==
  /\ ThroughQueryTable(last)
  /\ mutations > 0
  /\ basis # table
  /\ last.status = "ok"
  /\ AnswerFrom(table, last).status = "ok"
  /\ last.value # AnswerFrom(table, last).value

====
